---------------------------- MODULE Spec2Model ----------------------------
(***************************************************************************)
(* State-machine model of the goat_prover block checker:                   *)
(*   src/src/check.rs  execute_test_suite / execute_test_unit              *)
(*   src/src/main.rs   main loop, prove_tx, prove, check                   *)
(*                                                                         *)
(* The execution engine (revm) is an external collaborator.  It is         *)
(* modelled by Transact: a deterministic function of the snapshot, the     *)
(* environment and the ruleset, which validates intrinsic gas, then the    *)
(* caller's balance, and on success commits a value transfer.              *)
(***************************************************************************)
EXTENDS Integers, Sequences, FiniteSets, TLC

(***************************************************************************)
(* Bounds of the model.                                                    *)
(***************************************************************************)
\* Largest number of expectations a generated unit's `post` holds in total.
MaxTests == 2
\* Width in bits of the engine's native gas limit (u64 in the code), scaled
\* down so that values stay inside TLC's integers.
GasBits == 20

U64_MAX == 2 ^ GasBits - 1

(***************************************************************************)
(* Values.                                                                 *)
(***************************************************************************)
None == "None"

\* Option<T>::is_some / is_none on the sentinel encoding.
IsSome(o) == o # None

\* Option<U256>: None and Some(x) for the numeric optional fields.
NoneU256 == [some |-> FALSE, val |-> 0]
SomeU256(x) == [some |-> TRUE, val |-> x]

Ok == [tag |-> "Ok", msg |-> ""]
Err(s) == [tag |-> "Err", msg |-> s]
\* A panic unwinds out of the function: no Result is returned.
Panic(s) == [tag |-> "Panic", msg |-> s]
NoResult == [tag |-> "None", msg |-> ""]

\* SpecName variants that occur in the model, in the order in which the
\* ordered map `post` iterates over them.
SpecNames ==
    <<"Frontier", "ByzantiumToConstantinopleAt5", "Constantinople", "Merge", "Unknown">>

SpecRank(name) == CHOOSE i \in 1..Len(SpecNames) : SpecNames[i] = name

\* matches!(spec_name, ByzantiumToConstantinopleAt5 | Constantinople | Unknown)
IsExcludedTwo(name) == name \in {"ByzantiumToConstantinopleAt5", "Constantinople"}
IsExcluded(name) ==
    name \in {"ByzantiumToConstantinopleAt5", "Constantinople", "Unknown"}

\* SpecId::enabled(spec_id, SPURIOUS_DRAGON): of the modelled rulesets only
\* Frontier precedes Spurious Dragon.
StateClearAlways(name) == TRUE
StateClearEnabled(name) == name # "Frontier"

(***************************************************************************)
(* Sender resolution.                                                      *)
(***************************************************************************)
\* Secret keys: "zero" is not a valid scalar (SigningKey::from_slice fails),
\* "k1" is valid and its public key hashes to address "K".
SecretKeys == {"zero", "k1"}

recover_address_lenient(private_key) == "K"

recover_address(private_key) ==
    IF private_key = "zero" THEN None ELSE "K"

(***************************************************************************)
(* The transaction template and the expectations of generated units.       *)
(***************************************************************************)
\* saturating_to::<u64>()
wrapping_to(x) == x % (2 ^ GasBits)
saturating_to(x) == IF x > U64_MAX THEN U64_MAX ELSE x

\* Candidate sequences of the generated templates: gas limit 21000 covers
\* the intrinsic cost, 100 does not; the value is the sender's whole balance.
TemplateGasLimit == <<21000, 100>>
TemplateData == <<"d0">>
TemplateValue == <<10>>

\* Exception markers an expectation may carry (None: success is expected).
Markers == {None, "TR_IntrinsicGas"}

\* The index triples of generated expectations: all three select the
\* first candidate, or one of them selects any other position of its
\* sequence, up to one position past the end (indexes are 0-based).
FirstCandidates == [data |-> 0, gas |-> 0, value |-> 0]

IndexTriples ==
    {[FirstCandidates EXCEPT !.data = i] : i \in 0..Len(TemplateData)}
        \cup {[FirstCandidates EXCEPT !.gas = i] : i \in 0..Len(TemplateGasLimit)}
        \cup {[FirstCandidates EXCEPT !.value = i] : i \in 0..Len(TemplateValue)}

Tests == [indexes : IndexTriples, expect_exception : Markers]

\* The pre-state of generated units: the explicit sender "A" holds 10, the
\* key-derived sender "K" holds 5, the recipient "B" does not exist.
PreState ==
    [a \in {"A", "K"} |-> [balance |-> IF a = "A" THEN 10 ELSE 5, nonce |-> 0]]


\* The block environment of generated units.
UnitEnv ==
    [current_number |-> 1,
     current_coinbase |-> "M",
     current_timestamp |-> 1000,
     current_gas_limit |-> 30000,
     current_base_fee |-> NoneU256,
     current_difficulty |-> 0,
     current_random |-> None,
     parent_blob_gas_used |-> NoneU256,
     parent_excess_blob_gas |-> NoneU256]

\* Option<AccessList> values of the access-list sequence.
NoAccessList == [some |-> FALSE, list |-> <<>>]
SomeAccessList(items) == [some |-> TRUE, list |-> items]

\* The access lists of generated templates, index-aligned with the data.
TemplateAccessLists ==
    <<SomeAccessList(<<[address |-> "B", storage_keys |-> <<1>>]>>)>>

\* A post map flattened to (fork rank, expectation) entries in iteration
\* order: the fork ranks never decrease.
FlatPosts ==
    {fl \in UNION {[1..n -> (1..Len(SpecNames)) \X Tests] : n \in 0..MaxTests} :
        \A i \in 1..(Len(fl) - 1) : fl[i][1] <= fl[i + 1][1]}

TestsOf(fl, rank) ==
    LET idx == {i \in DOMAIN fl : fl[i][1] = rank}
        first == CHOOSE i \in idx : \A j \in idx : i <= j
    IN  [k \in 1..Cardinality(idx) |-> fl[first + k - 1][2]]

PostOf(fl) ==
    [name \in {SpecNames[fl[i][1]] : i \in DOMAIN fl} |-> TestsOf(fl, SpecRank(name))]

MkUnit(sender, secret_key, post) ==
    [pre |-> PreState,
     env |-> UnitEnv,
     transaction |->
        [sender |-> sender,
         secret_key |-> secret_key,
         gas_price |-> NoneU256,
         max_fee_per_gas |-> NoneU256,
         gas_limit |-> TemplateGasLimit,
         data |-> TemplateData,
         value |-> TemplateValue,
         access_lists |-> TemplateAccessLists,
         max_priority_fee_per_gas |-> NoneU256,
         blob_versioned_hashes |-> <<>>,
         max_fee_per_blob_gas |-> NoneU256,
         to |-> "B"],
     post |-> post]

\* The keys of `post` in the order the ordered map yields them.
PostKeys(post) ==
    LET S == DOMAIN post
    IN  [i \in 1..Cardinality(S) |->
            CHOOSE n \in S : Cardinality({m \in S : SpecRank(m) < SpecRank(n)}) = i - 1]

(***************************************************************************)
(* The account cache and the execution engine.                             *)
(***************************************************************************)
\* CacheState::new(false) filled from `pre`.
CacheFromPre(pre) == [accounts |-> pre, state_clear |-> FALSE]

Balance(cache, a) ==
    IF a \in DOMAIN cache.accounts THEN cache.accounts[a].balance ELSE 0

Nonce(cache, a) ==
    IF a \in DOMAIN cache.accounts THEN cache.accounts[a].nonce ELSE 0

\* The accounts after a committed transfer of env.tx.value from the caller
\* to the destination (the created contract "C" when there is none).
Commit(cache, env) ==
    LET from == env.tx.caller
        dest == IF IsSome(env.tx.transact_to) THEN env.tx.transact_to ELSE "C"
        v == env.tx.value
        touched == DOMAIN cache.accounts \cup {from, dest}
        after ==
            [a \in touched |->
                [balance |-> Balance(cache, a)
                                - (IF a = from THEN v ELSE 0)
                                + (IF a = dest THEN v ELSE 0),
                 nonce |-> Nonce(cache, a) + (IF a = from THEN 1 ELSE 0)]]
        kept == {a \in touched :
                    ~(cache.state_clear /\ after[a].balance = 0 /\ after[a].nonce = 0)}
    IN  [cache EXCEPT !.accounts = [a \in kept |-> after[a]]]

\* evm.transact_commit(): validation failures are the engine's Err results
\* and commit nothing; a valid transaction is executed and committed.
Transact(cache, env) ==
    IF env.tx.gas_limit < 21000
    THEN [ok |-> FALSE, err |-> "CallGasCostMoreThanGasLimit", cache |-> cache]
    ELSE IF Balance(cache, env.tx.caller) < env.tx.gas_limit * env.tx.gas_price + env.tx.value
    THEN [ok |-> FALSE, err |-> "LackOfFundForMaxFee", cache |-> cache]
    ELSE [ok |-> TRUE, err |-> "", cache |-> Commit(cache, env)]

(***************************************************************************)
(* State.                                                                  *)
(***************************************************************************)
VARIABLES
    unit,         \* execute_test_unit: the unit being executed
    upc,          \* execute_test_unit: "idle", "start", "loop" or "done"
    cache_state,  \* execute_test_unit: the cache built from unit.pre
    env,          \* execute_test_unit: the environment, overlaid per expectation
    fork_i,       \* position of the outer loop in the keys of unit.post
    test_i,       \* position of the inner loop in the fork's expectations
    result,       \* what execute_test_unit returned (or the panic that left it)
    executed,     \* history: one entry per call of evm.transact_commit()
    snapshots,    \* history: number of clones taken of cache_state
    spc,          \* execute_test_suite: "idle", "decode", "loop", "in_unit" or "done"
    test_data,    \* execute_test_suite: the envelope it was called with
    test_suite,   \* execute_test_suite: the parsed suite
    unit_i,       \* execute_test_suite: position in the suite's names
    sresult,      \* what execute_test_suite returned (or the panic that left it)
    units_run,    \* history: the units executed by this call, with their results
    ppc,          \* main: where the process is
    args,         \* main: the command line ("check" or "prove")
    prove_loop,   \* main: PROVE_LOOP
    elf_path,     \* main: ELF_PATH ("" when unset)
    block_no,     \* main: the block to acquire next
    items,        \* main: the suite acquired for block_no
    buf,          \* prove_tx / check: the envelope handed to execute_test_suite
    fs,           \* the files {outdir}/{block_no}.json written so far
    validated,    \* history: the envelopes validated for blocks, with the results
    proved,       \* history: the proof submissions, with the envelope each read
    acquisitions, \* history: the outcomes of executor::process per block number,
                  \* a run of failures at one number recorded once
    chain,            \* relay: the blocks the provider serves, by height
    target_address,   \* relay: the filter (None: every transaction)
    start_height,     \* relay: config.ethereum.start_height
    current_height,   \* process_blocks_from_height: the height to fetch next
    rpc,              \* process_blocks_from_height: "idle", "fetch", "send",
                      \* "sleep" or "returned"
    block,            \* process_blocks_from_height: the transactions of the fetched block
    tx_i,             \* process_blocks_from_height: position in the block's transactions
    channel,          \* the messages buffered in the mpsc channel
    rx,               \* relay main: "idle", "recv" or "closed" (the receiver is dropped)
    sent,             \* history: the transactions tx_sender.send accepted
    received          \* history: the transactions rx.recv returned

unit_vars == <<unit, upc, cache_state, env, fork_i, test_i, result, executed, snapshots>>

suite_vars == <<spc, test_data, test_suite, unit_i, sresult, units_run>>

main_vars ==
    <<ppc, args, prove_loop, elf_path, block_no, items, buf, fs, validated, proved,
      acquisitions>>

relay_vars ==
    <<chain, target_address, start_height, current_height, rpc, block, tx_i, channel, rx,
      sent, received>>

vars == <<unit_vars, suite_vars, main_vars, relay_vars>>

(***************************************************************************)
(* execute_test_unit.                                                      *)
(***************************************************************************)
\* calc_excess_blob_gas: the excess over the target of 393216 per block.
calc_excess_blob_gas(parent_blob_gas_used, parent_excess_blob_gas) ==
    IF parent_excess_blob_gas + parent_blob_gas_used < 393216
    THEN 0
    ELSE parent_excess_blob_gas + parent_blob_gas_used - 393216

\* Option<BlobExcessGasAndPrice>: the price is the engine's function of
\* the excess, kept symbolic.
set_blob_excess_gas_and_price(excess) ==
    [some |-> TRUE, excess_blob_gas |-> excess,
     blob_gasprice |-> <<"calc_blob_gasprice", excess>>]

\* The blob fields of BlockEnv::default(): an excess of zero and its price.
DefaultBlobGas == set_blob_excess_gas_and_price(0)

\* Env::default() with the cfg of lines 43-44.
DefaultEnv ==
    [cfg |-> [chain_id |-> 1, disable_base_fee |-> TRUE],
     block |-> [number |-> 0,
                coinbase |-> "0x0",
                timestamp |-> 1,
                gas_limit |-> 0,
                basefee |-> 0,
                difficulty |-> 0,
                prevrandao |-> None,
                blob_excess_gas_and_price |-> DefaultBlobGas],
     tx |-> [caller |-> "0x0",
             gas_limit |-> U64_MAX,
             gas_price |-> 0,
             gas_priority_fee |-> NoneU256,
             blob_hashes |-> <<>>,
             max_fee_per_blob_gas |-> NoneU256,
             data |-> "",
             value |-> 0,
             access_list |-> <<>>,
             transact_to |-> "0x0"]]

\* unit.transaction.sender, else the address recovered from the secret key.
ResolveSenderKeyFirst(tx) ==
    IF IsSome(recover_address(tx.secret_key)) THEN recover_address(tx.secret_key)
    ELSE tx.sender
ResolveSender(tx) ==
    IF IsSome(tx.sender) THEN tx.sender ELSE recover_address(tx.secret_key)

\* Option::or / unwrap_or_default of lines 73-77.
GasPriceMaxFeeFirst(tx) ==
    IF tx.max_fee_per_gas.some THEN tx.max_fee_per_gas.val
    ELSE IF tx.gas_price.some THEN tx.gas_price.val
    ELSE 0
GasPrice(tx) ==
    IF tx.gas_price.some THEN tx.gas_price.val
    ELSE IF tx.max_fee_per_gas.some THEN tx.max_fee_per_gas.val
    ELSE 0

\* Lines 57-66: the blob fields are computed when both parent values are
\* there, and left at their default otherwise.
BlobExcessGasAndPriceEither(uenv) ==
    IF uenv.parent_blob_gas_used.some \/ uenv.parent_excess_blob_gas.some
    THEN set_blob_excess_gas_and_price(
             calc_excess_blob_gas(uenv.parent_blob_gas_used.val,
                                  uenv.parent_excess_blob_gas.val))
    ELSE DefaultBlobGas
BlobExcessGasAndPrice(uenv) ==
    IF uenv.parent_blob_gas_used.some /\ uenv.parent_excess_blob_gas.some
    THEN set_blob_excess_gas_and_price(
             calc_excess_blob_gas(uenv.parent_blob_gas_used.val,
                                  uenv.parent_excess_blob_gas.val))
    ELSE DefaultBlobGas

\* The base environment of lines 41-81, given the resolved caller.
BaseEnv(u, caller) ==
    [DefaultEnv EXCEPT
        !.block.number = u.env.current_number,
        !.block.coinbase = u.env.current_coinbase,
        !.block.timestamp = u.env.current_timestamp,
        !.block.gas_limit = u.env.current_gas_limit,
        !.block.basefee =
            IF u.env.current_base_fee.some THEN u.env.current_base_fee.val ELSE 0,
        !.block.difficulty = u.env.current_difficulty,
        !.block.prevrandao = u.env.current_random,
        !.block.blob_excess_gas_and_price = BlobExcessGasAndPrice(u.env),
        !.tx.caller = caller,
        !.tx.gas_price = GasPrice(u.transaction),
        !.tx.gas_priority_fee = u.transaction.max_priority_fee_per_gas,
        !.tx.blob_hashes = u.transaction.blob_versioned_hashes,
        !.tx.max_fee_per_blob_gas = u.transaction.max_fee_per_blob_gas]

\* Lines 29-81 when the sender resolves: the cache and the base environment.
BuildEnv ==
    /\ upc = "start"
    /\ IsSome(ResolveSender(unit.transaction))
    /\ cache_state' = CacheFromPre(unit.pre)
    /\ env' = BaseEnv(unit, ResolveSender(unit.transaction))
    /\ fork_i' = 1
    /\ test_i' = 1
    /\ upc' = "loop"
    /\ UNCHANGED <<unit, result, executed, snapshots>>
    /\ UNCHANGED <<suite_vars, main_vars, relay_vars>>

\* Lines 69-72 when recover_address yields None: ok_or_else(String::new)?
SenderFails ==
    /\ upc = "start"
    /\ ~IsSome(ResolveSender(unit.transaction))
    /\ cache_state' = CacheFromPre(unit.pre)
    /\ result' = Err("")
    /\ upc' = "done"
    /\ UNCHANGED <<unit, env, fork_i, test_i, executed, snapshots>>
    /\ UNCHANGED <<suite_vars, main_vars, relay_vars>>

CurFork == PostKeys(unit.post)[fork_i]
CurTests == unit.post[CurFork]
CurTest == CurTests[test_i]

\* Lines 85-90: an excluded fork is skipped.
SkipFork ==
    /\ upc = "loop"
    /\ fork_i <= Len(PostKeys(unit.post))
    /\ IsExcluded(CurFork)
    /\ fork_i' = fork_i + 1
    /\ test_i' = 1
    /\ UNCHANGED <<unit, upc, cache_state, env, result, executed, snapshots>>
    /\ UNCHANGED <<suite_vars, main_vars, relay_vars>>

\* Line 93: the fork's expectations are exhausted.
NextFork ==
    /\ upc = "loop"
    /\ fork_i <= Len(PostKeys(unit.post))
    /\ ~IsExcluded(CurFork)
    /\ test_i > Len(CurTests)
    /\ fork_i' = fork_i + 1
    /\ test_i' = 1
    /\ UNCHANGED <<unit, upc, cache_state, env, result, executed, snapshots>>
    /\ UNCHANGED <<suite_vars, main_vars, relay_vars>>

\* Lines 94-102: slice indexing and get().unwrap() need the index in range.
InRange(tx, t) ==
    /\ t.indexes.gas < Len(tx.gas_limit)
    /\ t.indexes.data < Len(tx.data)
    /\ t.indexes.value < Len(tx.value)

\* The first of lines 94, 100 and 102 to panic on an index out of range.
IndexPanic(tx, t) ==
    IF t.indexes.gas >= Len(tx.gas_limit) \/ t.indexes.data < Len(tx.data)
    THEN Panic("index out of bounds")
    ELSE Panic("called Option::unwrap() on a None value")

\* Lines 104-115: the access list at the data index, empty when there is
\* none.
AccessList(tx, t) ==
    IF t.indexes.data < Len(tx.access_lists) /\ tx.access_lists[t.indexes.data + 1].some
    THEN tx.access_lists[t.indexes.data + 1].list
    ELSE <<>>

\* Lines 94-121: the environment overlaid with the expectation's variant.
OverlayKeeping(e, tx, t) ==
    [e EXCEPT
        !.tx.gas_limit = saturating_to(tx.gas_limit[t.indexes.gas + 1]),
        !.tx.data = tx.data[t.indexes.data + 1],
        !.tx.value = tx.value[t.indexes.value + 1],
        !.tx.access_list =
            IF AccessList(tx, t) = <<>> THEN e.tx.access_list ELSE AccessList(tx, t),
        !.tx.transact_to = tx.to]
Overlay(e, tx, t) ==
    [e EXCEPT
        !.tx.gas_limit = saturating_to(tx.gas_limit[t.indexes.gas + 1]),
        !.tx.data = tx.data[t.indexes.data + 1],
        !.tx.value = tx.value[t.indexes.value + 1],
        !.tx.access_list = AccessList(tx, t),
        !.tx.transact_to = tx.to]

\* Lines 123-127: the clone of the cache with the fork's state-clear flag.
Snapshot(cache, fork) == [cache EXCEPT !.state_clear = StateClearEnabled(fork)]

\* Lines 123, 128-133: the engine commits into the clone, so the cache
\* the unit keeps is the one it had.
CacheAfterShared(cache, committed) == committed
CacheAfter(cache, committed) == cache

\* Lines 140-156: the closure `check`.
checkStrict(expect_exception, exec_result) ==
    IF ~IsSome(expect_exception) /\ exec_result.ok THEN Ok
    ELSE IF exec_result.ok THEN Panic("called Option::unwrap() on a None value")
    ELSE Err(exec_result.err)
checkGeneric(expect_exception, exec_result) ==
    IF ~IsSome(expect_exception) /\ exec_result.ok THEN Ok
    ELSE IF IsSome(expect_exception) /\ ~exec_result.ok THEN Ok
    ELSE Err("execution mismatch")
checkMatching(expect_exception, exec_result) ==
    IF ~IsSome(expect_exception) /\ exec_result.ok THEN Ok
    ELSE IF /\ IsSome(expect_exception)
            /\ ~exec_result.ok
            /\ (expect_exception = "TR_IntrinsicGas"
                    <=> exec_result.err = "CallGasCostMoreThanGasLimit")
    THEN Ok
    ELSE IF ~exec_result.ok THEN Err(exec_result.err)
    ELSE Panic("called Option::unwrap() on a None value")
check(expect_exception, exec_result) ==
    IF ~IsSome(expect_exception) /\ exec_result.ok THEN Ok
    ELSE IF IsSome(expect_exception) /\ ~exec_result.ok THEN Ok
    ELSE IF ~exec_result.ok THEN Err(exec_result.err)
    ELSE Panic("called Option::unwrap() on a None value")

\* Lines 158-160: anything but Ok leaves the loops.
LeavesOnPanic(r) == r.tag = "Panic"
Leaves(r) == r.tag # "Ok"

\* Lines 93-160: one iteration of the inner loop.
RunExpectation ==
    /\ upc = "loop"
    /\ fork_i <= Len(PostKeys(unit.post))
    /\ ~IsExcluded(CurFork)
    /\ test_i <= Len(CurTests)
    /\ IF ~InRange(unit.transaction, CurTest)
       THEN /\ result' = IndexPanic(unit.transaction, CurTest)
            /\ upc' = "done"
            /\ UNCHANGED <<unit, cache_state, env, fork_i, test_i, executed, snapshots>>
       ELSE LET e == Overlay(env, unit.transaction, CurTest)
                cache == Snapshot(cache_state, CurFork)
                exec_result == Transact(cache, e)
                r == check(CurTest.expect_exception, exec_result)
            IN  /\ env' = e
                /\ cache_state' = CacheAfter(cache_state, exec_result.cache)
                /\ snapshots' = snapshots + 1
                /\ executed' = Append(executed,
                                  [fork |-> CurFork, test |-> test_i, env |-> e,
                                   expect_exception |-> CurTest.expect_exception,
                                   state_clear |-> cache.state_clear,
                                   ok |-> exec_result.ok, err |-> exec_result.err,
                                   verdict |-> r])
                /\ IF Leaves(r)
                   THEN /\ result' = r
                        /\ upc' = "done"
                        /\ UNCHANGED <<fork_i, test_i>>
                   ELSE /\ test_i' = test_i + 1
                        /\ UNCHANGED <<fork_i, upc, result>>
                /\ UNCHANGED unit
    /\ UNCHANGED <<suite_vars, main_vars, relay_vars>>

\* Line 163: every fork was visited.
ReturnOk ==
    /\ upc = "loop"
    /\ fork_i > Len(PostKeys(unit.post))
    /\ result' = Ok
    /\ upc' = "done"
    /\ UNCHANGED <<unit, cache_state, env, fork_i, test_i, executed, snapshots>>
    /\ UNCHANGED <<suite_vars, main_vars, relay_vars>>

UnitNext == BuildEnv \/ SenderFails \/ SkipFork \/ NextFork \/ RunExpectation \/ ReturnOk

\* The state in which execute_test_unit is entered on a unit.
UnitEntry(u) ==
    /\ unit = u
    /\ upc = "start"
    /\ cache_state = CacheFromPre(<<>>)
    /\ env = DefaultEnv
    /\ fork_i = 0
    /\ test_i = 0
    /\ result = NoResult
    /\ executed = <<>>
    /\ snapshots = 0

(***************************************************************************)
(* The envelope: serde_json::to_string, then bincode (a length prefix and  *)
(* the string's bytes).  The JSON text is a sequence of tokens, one per    *)
(* map entry, in the key order of the suite.                               *)
(***************************************************************************)
\* Test names, in their string order.
TestNames == <<"t1", "t2">>

NameRank(name) == CHOOSE i \in 1..Len(TestNames) : TestNames[i] = name

\* The keys of a suite in the order the ordered map yields them.
SuiteKeys(suite) ==
    LET S == DOMAIN suite
    IN  [i \in 1..Cardinality(S) |->
            CHOOSE n \in S : Cardinality({m \in S : NameRank(m) < NameRank(n)}) = i - 1]

NoUnit == MkUnit(None, "zero", <<>>)

LenToken(n) == [kind |-> "len", n |-> n, name |-> "", unit |-> NoUnit]
EntryToken(name, u) == [kind |-> "entry", n |-> 0, name |-> name, unit |-> u]
GarbageToken == [kind |-> "garbage", n |-> 0, name |-> "", unit |-> NoUnit]

\* serde_json::to_string(&test_suite)
to_string(suite) ==
    [i \in 1..Cardinality(DOMAIN suite) |->
        EntryToken(SuiteKeys(suite)[i], suite[SuiteKeys(suite)[i]])]

\* bincode::serialize_into(&mut buf, &json_string)
serialize(json_string) == <<LenToken(Len(json_string))>> \o json_string

\* bincode::deserialize::<String>: the prefix must be there and as many
\* bytes as it announces; bytes after them are ignored.
deserializeLenient(data) ==
    IF data = <<>> \/ data[1].kind # "len"
    THEN [ok |-> FALSE, err |-> "io error: unexpected end of file", val |-> <<>>]
    ELSE [ok |-> TRUE, err |-> "",
          val |-> SubSeq(data, 2, IF Len(data) - 1 < data[1].n THEN Len(data) ELSE 1 + data[1].n)]
deserialize(data) ==
    IF data = <<>> \/ data[1].kind # "len" \/ Len(data) - 1 < data[1].n
    THEN [ok |-> FALSE, err |-> "io error: unexpected end of file", val |-> <<>>]
    ELSE [ok |-> TRUE, err |-> "", val |-> SubSeq(data, 2, 1 + data[1].n)]

\* serde_json::from_str::<TestSuite>: a later entry of a name replaces an
\* earlier one.
from_str(json_string) ==
    IF \E i \in DOMAIN json_string : json_string[i].kind # "entry"
    THEN [ok |-> FALSE, err |-> "expected value", val |-> <<>>]
    ELSE [ok |-> TRUE, err |-> "",
          val |-> [name \in {json_string[i].name : i \in DOMAIN json_string} |->
                      LET last == CHOOSE i \in DOMAIN json_string :
                                     /\ json_string[i].name = name
                                     /\ \A j \in DOMAIN json_string :
                                           json_string[j].name = name => j <= i
                      IN  json_string[last].unit]]

(***************************************************************************)
(* execute_test_suite.                                                     *)
(***************************************************************************)
\* The state in which execute_test_suite is entered on an envelope.
SuiteEntry(data) ==
    /\ spc' = "decode"
    /\ test_data' = data
    /\ test_suite' = <<>>
    /\ unit_i' = 0
    /\ sresult' = NoResult
    /\ units_run' = <<>>

\* Lines 20-21 when one of the two decodings fails: map_err(..)?
SuiteDecodeFails ==
    /\ spc = "decode"
    /\ LET s == deserialize(test_data)
       IN  IF ~s.ok THEN sresult' = Err(s.err)
           ELSE /\ ~from_str(s.val).ok
                /\ sresult' = Err(from_str(s.val).err)
    /\ spc' = "done"
    /\ UNCHANGED <<test_data, test_suite, unit_i, units_run, unit_vars, main_vars, relay_vars>>

\* Lines 20-21 when both decodings succeed.
SuiteDecode ==
    /\ spc = "decode"
    /\ deserialize(test_data).ok
    /\ from_str(deserialize(test_data).val).ok
    /\ test_suite' = from_str(deserialize(test_data).val).val
    /\ unit_i' = 1
    /\ spc' = "loop"
    /\ UNCHANGED <<test_data, sresult, units_run, unit_vars, main_vars, relay_vars>>

\* Lines 22-23: the call of execute_test_unit on the next unit.
SuiteCallUnit ==
    /\ spc = "loop"
    /\ unit_i <= Len(SuiteKeys(test_suite))
    /\ unit' = test_suite[SuiteKeys(test_suite)[unit_i]]
    /\ upc' = "start"
    /\ cache_state' = CacheFromPre(<<>>)
    /\ env' = DefaultEnv
    /\ fork_i' = 0
    /\ test_i' = 0
    /\ result' = NoResult
    /\ executed' = <<>>
    /\ snapshots' = 0
    /\ spc' = "in_unit"
    /\ UNCHANGED <<test_data, test_suite, unit_i, sresult, units_run, main_vars, relay_vars>>

\* Line 23, the `?`: anything but Ok leaves execute_test_suite.
PropagatesPanicOnly(r) == r.tag = "Panic"
Propagates(r) == r.tag # "Ok"

\* Line 23: execute_test_unit is back.
SuiteUnitReturns ==
    /\ spc = "in_unit"
    /\ upc = "done"
    /\ upc' = "idle"
    /\ units_run' = Append(units_run,
                       [name |-> SuiteKeys(test_suite)[unit_i], result |-> result])
    /\ IF Propagates(result)
       THEN /\ sresult' = result
            /\ spc' = "done"
            /\ UNCHANGED unit_i
       ELSE /\ unit_i' = unit_i + 1
            /\ spc' = "loop"
            /\ UNCHANGED sresult
    /\ UNCHANGED <<unit, cache_state, env, fork_i, test_i, result, executed, snapshots>>
    /\ UNCHANGED <<test_data, test_suite, main_vars, relay_vars>>

\* Line 25: every unit returned Ok.
SuiteReturnOk ==
    /\ spc = "loop"
    /\ unit_i > Len(SuiteKeys(test_suite))
    /\ sresult' = Ok
    /\ spc' = "done"
    /\ UNCHANGED <<test_data, test_suite, unit_i, units_run, unit_vars, main_vars, relay_vars>>

SuiteNext ==
    SuiteDecodeFails \/ SuiteDecode \/ SuiteCallUnit \/ SuiteUnitReturns \/ SuiteReturnOk

(***************************************************************************)
(* main, check, prove_tx and prove.                                        *)
(***************************************************************************)
\* Largest number of blocks the loop of main acquires successfully.
MaxBlocks == 2

\* Units the block source hands over: one that passes (and carries an
\* excluded fork), one whose transaction fails unexpectedly, one whose
\* transaction succeeds against a declared exception, one whose sender
\* does not resolve.
PassTest == [indexes |-> [data |-> 0, gas |-> 0, value |-> 0], expect_exception |-> None]
LowGasTest == [indexes |-> [data |-> 0, gas |-> 1, value |-> 0], expect_exception |-> None]
MarkedTest ==
    [indexes |-> [data |-> 0, gas |-> 0, value |-> 0], expect_exception |-> "TR_IntrinsicGas"]

BlockUnits ==
    {MkUnit("A", "k1", [n \in {"Constantinople", "Merge"} |-> <<PassTest>>]),
     MkUnit("A", "k1", [n \in {"Merge"} |-> <<LowGasTest>>]),
     MkUnit("A", "k1", [n \in {"Merge"} |-> <<MarkedTest>>]),
     MkUnit(None, "zero", [n \in {"Merge"} |-> <<PassTest>>])}

\* The suites executor::process may return: up to one unit per test name.
Suites ==
    UNION {[S -> BlockUnits] : S \in SUBSET {TestNames[i] : i \in DOMAIN TestNames}}

\* The files `check <path>` may be pointed at: envelopes of suites, whole
\* or cut short, and an envelope whose string is not a suite.
CheckFiles ==
    {serialize(to_string(suite)) : suite \in Suites}
        \cup {SubSeq(serialize(to_string(suite)), 1, Len(to_string(suite))) :
                suite \in {su \in Suites : DOMAIN su # {}}}
        \cup {serialize(<<GarbageToken>>), <<>>}

\* Result::unwrap() of lines 92 and 135: anything but Ok panics.
UnwrapPanicsNever(r) == r.tag = "Panic"
UnwrapPanics(r) == r.tag # "Ok"

\* Lines 161-168: dispatch on the command line; a verb other than check
\* reaches todo!().
MainDispatch ==
    /\ ppc = "main"
    /\ ppc' = CASE args = "check" -> "check"
                [] args = "other" -> "panicked"
                [] OTHER -> "acquire"
    /\ UNCHANGED <<args, prove_loop, elf_path, block_no, items, buf, fs, validated, proved>>
    /\ UNCHANGED acquisitions
    /\ UNCHANGED <<unit_vars, suite_vars, relay_vars>>

\* Lines 134-135: check reads the file and calls execute_test_suite.
CheckRead ==
    /\ ppc = "check"
    /\ \E file \in CheckFiles :
          /\ buf' = file
          /\ SuiteEntry(file)
    /\ ppc' = "check_wait"
    /\ UNCHANGED <<args, prove_loop, elf_path, block_no, items, fs, validated, proved>>
    /\ UNCHANGED acquisitions
    /\ UNCHANGED <<unit_vars, relay_vars>>

\* Lines 135-136 and 164-167: unwrap of the suite's result, then exit.
CheckReturns ==
    /\ ppc = "check_wait"
    /\ spc = "done"
    /\ spc' = "idle"
    /\ ppc' = IF UnwrapPanics(sresult) THEN "panicked" ELSE "exit_ok"
    /\ UNCHANGED <<args, prove_loop, elf_path, block_no, items, buf, fs, validated, proved>>
    /\ UNCHANGED acquisitions
    /\ UNCHANGED <<test_data, test_suite, unit_i, sresult, units_run, unit_vars, relay_vars>>

\* Line 194: items.0.is_empty()
is_empty_never(suite) == FALSE
is_empty(suite) == DOMAIN suite = {}

\* Line 207: block_no += 1
SameBlock(n) == n
NextBlock(n) == n + 1

\* Lines 185-195 and 207: executor::process returns a suite; an empty one
\* is not handed to prove_tx.
Acquire ==
    /\ ppc = "acquire"
    /\ block_no <= MaxBlocks
    /\ \E suite \in Suites :
          /\ items' = suite
          /\ IF ~is_empty(suite)
             THEN /\ ppc' = "prove_tx"
                  /\ UNCHANGED block_no
             ELSE /\ ppc' = "loop_end"
                  /\ block_no' = NextBlock(block_no)
    /\ acquisitions' = Append(acquisitions, [block_no |-> block_no, ok |-> TRUE])
    /\ UNCHANGED <<args, prove_loop, elf_path, buf, fs, validated, proved>>
    /\ UNCHANGED <<unit_vars, suite_vars, relay_vars>>

\* Lines 185-186 and 209-213: executor::process fails; main logs and sleeps.
AcquireFails ==
    /\ ppc = "acquire"
    /\ block_no <= MaxBlocks
    /\ ppc' = "loop_end"
    /\ acquisitions' =
          IF acquisitions # <<>> /\ acquisitions[Len(acquisitions)] = [block_no |-> block_no, ok |-> FALSE]
          THEN acquisitions
          ELSE Append(acquisitions, [block_no |-> block_no, ok |-> FALSE])
    /\ UNCHANGED <<args, prove_loop, elf_path, block_no, items, buf, fs, validated, proved>>
    /\ UNCHANGED <<unit_vars, suite_vars, relay_vars>>

\* Lines 216-218: the loop goes round only under PROVE_LOOP.
LoopEnd ==
    /\ ppc = "loop_end"
    /\ ppc' = IF prove_loop THEN "acquire" ELSE "exit_ok"
    /\ UNCHANGED <<args, prove_loop, elf_path, block_no, items, buf, fs, validated, proved>>
    /\ UNCHANGED acquisitions
    /\ UNCHANGED <<unit_vars, suite_vars, relay_vars>>

\* Lines 85-92: prove_tx serializes the suite, writes the envelope to
\* {outdir}/{block_no}.json and calls execute_test_suite on the buffer.
ProveTxSerialize ==
    /\ ppc = "prove_tx"
    /\ buf' = serialize(to_string(items))
    /\ fs' = [b \in DOMAIN fs \cup {block_no} |-> IF b = block_no THEN buf' ELSE fs[b]]
    /\ SuiteEntry(buf')
    /\ ppc' = "validate_wait"
    /\ UNCHANGED <<args, prove_loop, elf_path, block_no, items, validated, proved>>
    /\ UNCHANGED acquisitions
    /\ UNCHANGED <<unit_vars, relay_vars>>

\* Line 90: std::fs::write fails; the `?` of lines 90 and 205 ends main.
ProveTxWriteFails ==
    /\ ppc = "prove_tx"
    /\ buf' = serialize(to_string(items))
    /\ ppc' = "exit_err"
    /\ UNCHANGED <<args, prove_loop, elf_path, block_no, items, fs, validated, proved>>
    /\ UNCHANGED acquisitions
    /\ UNCHANGED <<unit_vars, suite_vars, relay_vars>>

\* Lines 92-102 and 207: unwrap of the validation result; without an ELF
\* prove_tx returns and main goes on to the next block.
ProveTxValidated ==
    /\ ppc = "validate_wait"
    /\ spc = "done"
    /\ spc' = "idle"
    /\ validated' = Append(validated,
                       [block_no |-> block_no, data |-> test_data, result |-> sresult])
    /\ IF UnwrapPanics(sresult)
       THEN /\ ppc' = "panicked"
            /\ UNCHANGED block_no
       ELSE IF elf_path = ""
       THEN /\ ppc' = "loop_end"
            /\ block_no' = NextBlock(block_no)
       ELSE /\ ppc' = "prove"
            /\ UNCHANGED block_no
    /\ UNCHANGED <<args, prove_loop, elf_path, items, buf, fs, proved, acquisitions>>
    /\ UNCHANGED <<test_data, test_suite, unit_i, sresult, units_run, unit_vars, relay_vars>>

\* Lines 104-130, 12-74 and 207: prove reads the envelope back from the
\* file and submits it; whatever the prover answers is only logged.
Prove ==
    /\ ppc = "prove"
    /\ \E outcome \in {"proof", "none", "error"} :
          proved' = Append(proved,
                       [block_no |-> block_no,
                        public_inputstream |-> fs[block_no],
                        outcome |-> outcome])
    /\ block_no' = NextBlock(block_no)
    /\ ppc' = "loop_end"
    /\ UNCHANGED <<args, prove_loop, elf_path, items, buf, fs, validated, acquisitions>>
    /\ UNCHANGED <<unit_vars, suite_vars, relay_vars>>

MainNext ==
    \/ MainDispatch \/ CheckRead \/ CheckReturns
    \/ Acquire \/ AcquireFails \/ LoopEnd
    \/ ProveTxSerialize \/ ProveTxWriteFails \/ ProveTxValidated \/ Prove

(***************************************************************************)
(* The transaction relay (tools/tx_transfer): process_blocks_from_height   *)
(* is the producer task, the loop of main over rx.recv() is the consumer.  *)
(***************************************************************************)
\* Number of blocks the provider's chain holds.
MaxHeights == 2
\* Capacity of the channel: mpsc::channel(100) in the code, scaled down so
\* that the producer has to wait.
ChannelCapacity == 1

\* The recipients of a block's transactions, in block order: "T" is the
\* address the filter may name, "U" is another one.
BlockShapes == {<<>>, <<"T">>, <<"U", "T">>, <<"T", "U", "T">>}

Chains == [1..MaxHeights -> BlockShapes]

\* Option<H160>: main passes None, the function takes any.
Targets == {None, "T"}

\* block.transactions of the block at height h.
Transactions(ch, h) ==
    [i \in 1..Len(ch[h]) |-> [height |-> h, index |-> i, to |-> ch[h][i]]]

\* Lines 124-128: a transaction is passed over when a target is given and
\* it is not the recipient.
Forwarded(target, t) == ~(IsSome(target) /\ t.to # target)

\* Line 132: current_height += 1
SameHeight(h) == h
NextHeight(h) == h + 1

\* Line 116 and 117: get_block_with_txs returns the block.
FetchBlock ==
    /\ rpc = "fetch"
    /\ current_height \in DOMAIN chain
    /\ block' = Transactions(chain, current_height)
    /\ tx_i' = 1
    /\ rpc' = "send"
    /\ UNCHANGED <<chain, target_address, start_height, current_height, channel, rx, sent,
                   received>>
    /\ UNCHANGED <<unit_vars, suite_vars, main_vars>>

\* Lines 134-144: the block is not there yet (Ok(None)) or the request
\* failed (Err); both arms log and sleep.
FetchNothing ==
    /\ rpc = "fetch"
    /\ rpc' = "sleep"
    /\ UNCHANGED <<chain, target_address, start_height, current_height, block, tx_i, channel,
                   rx, sent, received>>
    /\ UNCHANGED <<unit_vars, suite_vars, main_vars>>

\* Lines 139 and 143: the sleep is over, the loop goes round.
Wake ==
    /\ rpc = "sleep"
    /\ rpc' = "fetch"
    /\ UNCHANGED <<chain, target_address, start_height, current_height, block, tx_i, channel,
                   rx, sent, received>>
    /\ UNCHANGED <<unit_vars, suite_vars, main_vars>>

\* Lines 124-128: continue.
SkipTx ==
    /\ rpc = "send"
    /\ tx_i <= Len(block)
    /\ ~Forwarded(target_address, block[tx_i])
    /\ tx_i' = tx_i + 1
    /\ UNCHANGED <<chain, target_address, start_height, current_height, rpc, block, channel,
                   rx, sent, received>>
    /\ UNCHANGED <<unit_vars, suite_vars, main_vars>>

\* Line 130: send completes once the channel has room; until then the
\* producer waits.
SendTx ==
    /\ rpc = "send"
    /\ tx_i <= Len(block)
    /\ Forwarded(target_address, block[tx_i])
    /\ rx # "closed"
    /\ Len(channel) < ChannelCapacity
    /\ channel' = Append(channel, block[tx_i])
    /\ sent' = Append(sent, block[tx_i])
    /\ tx_i' = tx_i + 1
    /\ UNCHANGED <<chain, target_address, start_height, current_height, rpc, block, rx,
                   received>>
    /\ UNCHANGED <<unit_vars, suite_vars, main_vars>>

\* Line 130: the receiver is gone, send fails and the `?` returns.
SendFails ==
    /\ rpc = "send"
    /\ tx_i <= Len(block)
    /\ Forwarded(target_address, block[tx_i])
    /\ rx = "closed"
    /\ rpc' = "returned"
    /\ UNCHANGED <<chain, target_address, start_height, current_height, block, tx_i, channel,
                   rx, sent, received>>
    /\ UNCHANGED <<unit_vars, suite_vars, main_vars>>

\* Lines 131-132: the block's transactions are done.
BlockDone ==
    /\ rpc = "send"
    /\ tx_i > Len(block)
    /\ current_height' = NextHeight(current_height)
    /\ rpc' = "fetch"
    /\ UNCHANGED <<chain, target_address, start_height, block, tx_i, channel, rx, sent,
                   received>>
    /\ UNCHANGED <<unit_vars, suite_vars, main_vars>>

\* main, lines 65-72, and forward_to_da: the consumer takes the oldest
\* message; forward_to_da returns (an Err is logged) or panics on the
\* unwrap of line 185, which ends main and drops the receiver with what
\* the channel still holds.
Recv ==
    /\ rx = "recv"
    /\ channel # <<>>
    /\ received' = Append(received, Head(channel))
    /\ \E panics \in BOOLEAN :
          IF panics
          THEN /\ rx' = "closed"
               /\ channel' = <<>>
          ELSE /\ rx' = "recv"
               /\ channel' = Tail(channel)
    /\ UNCHANGED <<chain, target_address, start_height, current_height, rpc, block, tx_i,
                   sent>>
    /\ UNCHANGED <<unit_vars, suite_vars, main_vars>>

RelayNext ==
    \/ FetchBlock \/ FetchNothing \/ Wake \/ SkipTx \/ SendTx \/ SendFails \/ BlockDone
    \/ Recv

(***************************************************************************)
(* Specifications.                                                         *)
(***************************************************************************)
UnitIdle ==
    /\ unit = NoUnit
    /\ upc = "idle"
    /\ cache_state = CacheFromPre(<<>>)
    /\ env = DefaultEnv
    /\ fork_i = 0
    /\ test_i = 0
    /\ result = NoResult
    /\ executed = <<>>
    /\ snapshots = 0

SuiteIdle ==
    /\ spc = "idle"
    /\ test_data = <<>>
    /\ test_suite = <<>>
    /\ unit_i = 0
    /\ sresult = NoResult
    /\ units_run = <<>>

MainIdle ==
    /\ ppc = "idle"
    /\ args = "none"
    /\ prove_loop = FALSE
    /\ elf_path = ""
    /\ block_no = 1
    /\ items = <<>>
    /\ buf = <<>>
    /\ fs = <<>>
    /\ validated = <<>>
    /\ proved = <<>>
    /\ acquisitions = <<>>

RelayIdle ==
    /\ chain = <<>>
    /\ target_address = None
    /\ start_height = 0
    /\ current_height = 0
    /\ rpc = "idle"
    /\ block = <<>>
    /\ tx_i = 0
    /\ channel = <<>>
    /\ rx = "idle"
    /\ sent = <<>>
    /\ received = <<>>

\* The process after lines 141-159: BLOCK_NO at its default.
Init ==
    /\ UnitIdle
    /\ SuiteIdle
    /\ RelayIdle
    /\ ppc = "main"
    /\ args \in {"check", "other", "prove"}
    /\ prove_loop \in BOOLEAN
    /\ elf_path \in {"", "elf"}
    /\ block_no = 1
    /\ items = <<>>
    /\ buf = <<>>
    /\ fs = <<>>
    /\ validated = <<>>
    /\ proved = <<>>
    /\ acquisitions = <<>>

Next == MainNext \/ SuiteNext \/ UnitNext

\* The whole process.
Spec == Init /\ [][Next]_vars

\* The generated units: with or without an explicit sender, with a valid or
\* an invalid secret key, and with every post map of up to MaxTests
\* expectations.
UnitInit ==
    /\ \E s \in {None, "A"}, k \in SecretKeys, fl \in FlatPosts :
          UnitEntry(MkUnit(s, k, PostOf(fl)))
    /\ SuiteIdle
    /\ MainIdle
    /\ RelayIdle

\* execute_test_unit alone, on every generated unit.
UnitSpec == UnitInit /\ [][UnitNext]_vars

(***************************************************************************)
(* Units that vary what the generated units above keep fixed: the parent   *)
(* blob-gas fields, the fee fields, the destination, the exception marker  *)
(* and templates with several candidates per sequence.                     *)
(***************************************************************************)
\* Gas-limit candidates: enough for the intrinsic cost, too little, and one
\* beyond the engine's width that is 21000 modulo 2^GasBits.
VariantGasLimit == <<21000, 100, U64_MAX + 1 + 21000>>
VariantData == <<"d0", "d1">>
VariantValue == <<10, 3>>

\* The access lists: one for the first data candidate, none for the second.
VariantAccessLists ==
    <<SomeAccessList(<<[address |-> "B", storage_keys |-> <<1>>]>>)>>

VariantMarkers == {None, "TR_IntrinsicGas", "TR_NoFunds"}

\* In-range index triples: the first candidates, or one index moved.
VariantIndexTriples ==
    {[FirstCandidates EXCEPT !.gas = i] : i \in 0..(Len(VariantGasLimit) - 1)}
        \cup {[FirstCandidates EXCEPT !.data = i] : i \in 0..(Len(VariantData) - 1)}
        \cup {[FirstCandidates EXCEPT !.value = i] : i \in 0..(Len(VariantValue) - 1)}

VariantTests == [indexes : VariantIndexTriples, expect_exception : VariantMarkers]

\* Post maps of one or two expectations: in one fork, in two executed
\* forks, or behind an excluded fork.
VariantPosts ==
    {[n \in {"Merge"} |-> <<t>>] : t \in VariantTests}
        \cup {[n \in {"Merge"} |-> <<t1, t2>>] : t1 \in VariantTests, t2 \in VariantTests}
        \cup {[n \in {"Frontier", "Merge"} |-> IF n = "Frontier" THEN <<t1>> ELSE <<t2>>] :
                 t1 \in VariantTests, t2 \in VariantTests}
        \cup {[n \in {"Constantinople", "Merge"} |->
                    IF n = "Constantinople" THEN <<t1>> ELSE <<t2>>] :
                 t1 \in VariantTests, t2 \in VariantTests}

\* (parent_blob_gas_used, parent_excess_blob_gas): each absent, or present
\* with a sum below, at or above the target; the largest excess is above
\* the target on its own.
BlobOptions ==
    {NoneU256, SomeU256(131072), SomeU256(393216)}
        \X {NoneU256, SomeU256(0), SomeU256(524288)}

\* (gas_price, max_fee_per_gas): each absent or present; a present gas
\* price may be zero.
FeeOptions == {NoneU256, SomeU256(0), SomeU256(1)} \X {NoneU256, SomeU256(2)}

\* The blob options with the fees absent, and the fee options with the
\* blob fields absent.
VariantFields ==
    {[blob |-> b, fee |-> <<NoneU256, NoneU256>>] : b \in BlobOptions}
        \cup {[blob |-> <<NoneU256, NoneU256>>, fee |-> f] : f \in FeeOptions}

\* (sender, secret_key, to): a call or a create by the explicit sender, and
\* a call by the key's address or by nobody.
VariantParties ==
    {<<"A", "zero", "B">>, <<"A", "k1", None>>, <<None, "k1", "B">>, <<None, "zero", "B">>}

MkVariantUnit(party, fields, post) ==
    [MkUnit(party[1], party[2], post) EXCEPT
        !.env.parent_blob_gas_used = fields.blob[1],
        !.env.parent_excess_blob_gas = fields.blob[2],
        !.transaction.gas_price = fields.fee[1],
        !.transaction.max_fee_per_gas = fields.fee[2],
        !.transaction.gas_limit = VariantGasLimit,
        !.transaction.data = VariantData,
        !.transaction.value = VariantValue,
        !.transaction.access_lists = VariantAccessLists,
        !.transaction.max_priority_fee_per_gas = SomeU256(1),
        !.transaction.blob_versioned_hashes = <<"h1">>,
        !.transaction.max_fee_per_blob_gas = SomeU256(1),
        !.transaction.to = party[3]]

VariantInit ==
    /\ \E party \in VariantParties, fields \in VariantFields, post \in VariantPosts :
          UnitEntry(MkVariantUnit(party, fields, post))
    /\ SuiteIdle
    /\ MainIdle
    /\ RelayIdle

\* execute_test_unit alone, on every varied unit.
VariantSpec == VariantInit /\ [][UnitNext]_vars

\* The relay after lines 49-63 of its main: the channel is empty, the
\* producer task starts at the configured height.
RelayInit ==
    /\ chain \in Chains
    /\ target_address \in Targets
    /\ start_height \in 1..MaxHeights
    /\ current_height = start_height
    /\ rpc = "fetch"
    /\ block = <<>>
    /\ tx_i = 0
    /\ channel = <<>>
    /\ rx = "recv"
    /\ sent = <<>>
    /\ received = <<>>
    /\ UnitIdle
    /\ SuiteIdle
    /\ MainIdle

\* The relay: producer and consumer interleaved.
RelaySpec == RelayInit /\ [][RelayNext]_vars

(***************************************************************************)
(* Vocabulary of the claims about execute_test_unit.  It is stated from    *)
(* the unit alone: what each expectation does when it is the only one run  *)
(* against the unit's pre-state.                                           *)
(***************************************************************************)
ExcludedForkNames == {"ByzantiumToConstantinopleAt5", "Constantinople", "Unknown"}

SenderResolves(u) ==
    IsSome(u.transaction.sender) \/ u.transaction.secret_key # "zero"

\* The caller a unit with a resolving sender runs under.
CallerOf(u) ==
    IF IsSome(u.transaction.sender) THEN u.transaction.sender ELSE "K"

\* The (fork name, expectation position) pairs of the non-excluded forks.
PairSet(u) ==
    UNION {{<<n, i>> : i \in 1..Len(u.post[n])} : n \in DOMAIN u.post \ ExcludedForkNames}

\* Evaluation order: by fork in the order of the map, then by position.
Before(p, q) ==
    \/ SpecRank(p[1]) < SpecRank(q[1])
    \/ p[1] = q[1] /\ p[2] < q[2]

\* The pairs in evaluation order.
EvalPairs(u) ==
    LET S == PairSet(u)
    IN  [n \in 1..Cardinality(S) |->
            CHOOSE p \in S : Cardinality({q \in S : Before(q, p)}) = n - 1]

PairFork(u, p) == p[1]
PairTest(u, p) == u.post[p[1]][p[2]]

PairInRange(u, p) ==
    LET t == PairTest(u, p)
    IN  /\ t.indexes.data \in 0..(Len(u.transaction.data) - 1)
        /\ t.indexes.gas \in 0..(Len(u.transaction.gas_limit) - 1)
        /\ t.indexes.value \in 0..(Len(u.transaction.value) - 1)

\* The engine's result for the pair run alone on a fresh copy of `pre`.
AloneExec(u, p) ==
    Transact(Snapshot(CacheFromPre(u.pre), PairFork(u, p)),
             Overlay(BaseEnv(u, CallerOf(u)), u.transaction, PairTest(u, p)))

\* PASS of the classification table.
PairPasses(u, p) ==
    LET marker == PairTest(u, p).expect_exception
        res == AloneExec(u, p)
    IN  \/ marker = None /\ res.ok
        \/ marker # None /\ ~res.ok

Last(seq) == seq[Len(seq)]

\* `post` names forks, and only excluded ones.
OnlyExcludedForks(u) ==
    DOMAIN u.post # {} /\ DOMAIN u.post \subseteq ExcludedForkNames

\* The pair the last engine call was made for.
LastPair == EvalPairs(unit)[Len(executed)]

(***************************************************************************)
(* C1: for a unit whose sender resolves and whose indexes are all in       *)
(* range, execute_test_unit returns Ok(()) if and only if every            *)
(* expectation of every non-excluded fork classifies PASS: no marker and   *)
(* the engine succeeded, or a marker and the engine failed.                *)
(***************************************************************************)
C1_OkIffAllPass ==
    (/\ upc = "done"
     /\ SenderResolves(unit)
     /\ \A p \in PairSet(unit) : PairInRange(unit, p))
    => (result = Ok <=> \A p \in PairSet(unit) : PairPasses(unit, p))

\* A unit returned Ok after an expected failure and an expected success.
C1_Witness ==
    /\ upc = "done"
    /\ result = Ok
    /\ Len(executed) = 2
    /\ \E i \in 1..2 : executed[i].expect_exception # None /\ ~executed[i].ok
    /\ \E i \in 1..2 : executed[i].expect_exception = None /\ executed[i].ok

(***************************************************************************)
(* C2: when an expectation declares an exception and the engine succeeds   *)
(* on it, execute_test_unit returns an Err (a failure result carrying a    *)
(* mismatch description).                                                  *)
(***************************************************************************)
C2_UnexpectedSuccessIsErr ==
    (/\ upc = "done"
     /\ executed # <<>>
     /\ PairTest(unit, LastPair).expect_exception # None
     /\ AloneExec(unit, LastPair).ok)
    => result.tag = "Err"

(***************************************************************************)
(* C3: when an expectation declares no exception and the engine fails on   *)
(* it, execute_test_unit returns Err carrying exactly the engine's error   *)
(* description for that execution.                                         *)
(***************************************************************************)
C3_UnexpectedFailureCarriesEngineError ==
    (/\ upc = "done"
     /\ executed # <<>>
     /\ PairTest(unit, LastPair).expect_exception = None
     /\ ~AloneExec(unit, LastPair).ok)
    => result = Err(AloneExec(unit, LastPair).err)

\* Both engine errors were returned for an expectation without a marker.
C3_Witness ==
    /\ upc = "done"
    /\ executed # <<>>
    /\ Last(executed).expect_exception = None
    /\ result = Err("LackOfFundForMaxFee")
    /\ Len(executed) = 2

(***************************************************************************)
(* C4: fail-fast.  The engine is called for the pairs in evaluation order  *)
(* with one snapshot each; a pair that classifies FAIL is the last one     *)
(* snapshotted and executed, the call ends there, and what it reports is   *)
(* that pair's failure.                                                    *)
(***************************************************************************)
C4_FailFast ==
    LET pairs == EvalPairs(unit)
    IN
    /\ snapshots = Len(executed)
    /\ Len(executed) <= Len(pairs)
    /\ \A i \in 1..Len(executed) :
          LET p == pairs[i]
          IN  /\ executed[i].fork = PairFork(unit, p)
              /\ executed[i].test = p[2]
              /\ ~PairPasses(unit, p) =>
                    /\ i = Len(executed)
                    /\ upc = "done"
                    /\ result.tag \in {"Err", "Panic"}
                    /\ ~AloneExec(unit, p).ok => result = Err(AloneExec(unit, p).err)

\* The first of two pairs failed, in the same fork or in an earlier one,
\* and the second, which would have failed differently, never ran.
C4_Witness ==
    /\ upc = "done"
    /\ Len(executed) = 1
    /\ Cardinality(PairSet(unit)) = 2
    /\ result = Err("CallGasCostMoreThanGasLimit")
    /\ DOMAIN unit.post = {"Frontier", "Merge"}
    /\ PairInRange(unit, EvalPairs(unit)[2])
    /\ ~PairPasses(unit, EvalPairs(unit)[2])

(***************************************************************************)
(* C5: snapshot isolation.  The cache built from `pre` is never changed by *)
(* an execution, and every expectation gets the engine result and the      *)
(* classification it gets when run alone on the pre-state.                 *)
(***************************************************************************)
C5_SnapshotIsolation ==
    /\ upc \in {"loop", "done"} => cache_state = CacheFromPre(unit.pre)
    /\ \A i \in 1..Len(executed) :
          LET alone == AloneExec(unit, <<executed[i].fork, executed[i].test>>)
          IN  /\ executed[i].ok = alone.ok
              /\ executed[i].err = alone.err
              /\ executed[i].verdict = check(executed[i].expect_exception, alone)

\* Two transfers of the sender's whole balance both succeeded.
C5_Witness ==
    /\ Len(executed) = 2
    /\ executed[1].ok /\ executed[2].ok
    /\ executed[1].env.tx.value = Balance(CacheFromPre(unit.pre), executed[1].env.tx.caller)
    /\ executed[1].env.tx.value > 0

(***************************************************************************)
(* C6 as stated: every unit whose `post` holds only excluded fork names    *)
(* returns Ok and executes no expectation.                                 *)
(***************************************************************************)
C6_OnlyExcludedIsOk ==
    (upc = "done" /\ OnlyExcludedForks(unit))
    => (result = Ok /\ executed = <<>> /\ snapshots = 0)

(***************************************************************************)
(* C6 amended: every unit whose sender resolves and whose `post` holds     *)
(* only excluded fork names returns Ok and executes no expectation.        *)
(***************************************************************************)
C6_OnlyExcludedIsOkWhenSenderResolves ==
    /\ OnlyExcludedForks(unit) => executed = <<>> /\ snapshots = 0
    /\ (upc = "done" /\ OnlyExcludedForks(unit) /\ SenderResolves(unit)) => result = Ok

\* A unit of two excluded forks, one of them Unknown, whose expectations
\* would not have passed, returned Ok.
C6_Witness ==
    /\ upc = "done"
    /\ result = Ok
    /\ DOMAIN unit.post = {"Constantinople", "Unknown"}
    /\ \A n \in DOMAIN unit.post :
          \E i \in 1..Len(unit.post[n]) : unit.post[n][i].indexes.gas = Len(unit.transaction.gas_limit)

(***************************************************************************)
(* C7: with no explicit sender and a secret key that is no valid signing   *)
(* key, execute_test_unit fails with the sender-resolution error and no    *)
(* execution is attempted for any fork or expectation.                     *)
(***************************************************************************)
C7_SenderResolutionFailsFirst ==
    (unit.transaction.sender = None /\ unit.transaction.secret_key = "zero")
    => /\ executed = <<>>
       /\ snapshots = 0
       /\ upc # "loop"
       /\ upc = "done" => result = Err("")

\* The unit failed at sender resolution although its post holds
\* expectations that would have run.
C7_Witness ==
    /\ upc = "done"
    /\ result = Err("")
    /\ unit.transaction.sender = None
    /\ Cardinality(PairSet(unit)) = 2

(***************************************************************************)
(* C8: when an evaluated expectation has an index outside its template     *)
(* sequence, the unit fails with a failure result (an Err, IndexOutOfRange)*)
(* and the transaction is not executed.                                    *)
(***************************************************************************)
C8_OutOfRangeIsErr ==
    (/\ upc = "done"
     /\ SenderResolves(unit)
     /\ Len(executed) < Cardinality(PairSet(unit))
     /\ \A i \in 1..Len(executed) : PairPasses(unit, EvalPairs(unit)[i])
     /\ ~PairInRange(unit, EvalPairs(unit)[Len(executed) + 1]))
    => (result.tag = "Err" /\ snapshots = Len(executed))

(***************************************************************************)
(* C9: validate before prove.  Every proof submission for a block follows  *)
(* a validation of that block that returned Ok, the validated envelope is  *)
(* the serialized suite of the block, and the envelope the prover read is  *)
(* that same envelope; a block whose validation failed is never submitted. *)
(***************************************************************************)
C9_ValidateBeforeProve ==
    /\ \A i \in DOMAIN proved :
          \E j \in DOMAIN validated :
              /\ validated[j].block_no = proved[i].block_no
              /\ validated[j].result = Ok
              /\ validated[j].data = proved[i].public_inputstream
    /\ \A j \in DOMAIN validated :
          validated[j].result # Ok =>
              /\ \A i \in DOMAIN proved : proved[i].block_no # validated[j].block_no
              /\ ppc # "prove"
    /\ ppc = "prove" =>
          /\ validated # <<>>
          /\ Last(validated).block_no = block_no
          /\ Last(validated).result = Ok
          /\ Last(validated).data = serialize(to_string(items))

\* Two blocks were proved, the second from a suite of two units.
C9_Witness ==
    /\ Len(proved) = 2
    /\ proved[2].block_no = 2
    /\ Len(proved[2].public_inputstream) = 3
    /\ proved[1].public_inputstream # proved[2].public_inputstream

(***************************************************************************)
(* C10: suite short-circuit.  execute_test_suite runs the units one at a   *)
(* time in the key order of the suite; a unit that does not return Ok is   *)
(* the last one run and its failure is the suite's result; the suite       *)
(* returns Ok only if every unit was run and returned Ok.                  *)
(***************************************************************************)
C10_SuiteShortCircuit ==
    /\ Len(units_run) <= Cardinality(DOMAIN test_suite)
    /\ \A i \in 1..Len(units_run) :
          /\ units_run[i].name = SuiteKeys(test_suite)[i]
          /\ units_run[i].result # Ok =>
                /\ i = Len(units_run)
                /\ spc \in {"done", "idle"}
                /\ sresult = units_run[i].result
    /\ upc \in {"start", "loop", "done"} =>
          /\ spc = "in_unit"
          /\ unit_i = Len(units_run) + 1
          /\ unit = test_suite[SuiteKeys(test_suite)[unit_i]]
    /\ (spc \in {"done", "idle"} /\ sresult = Ok) =>
          /\ Len(units_run) = Cardinality(DOMAIN test_suite)
          /\ \A i \in 1..Len(units_run) : units_run[i].result = Ok

\* The first of two units failed and the suite returned its error without
\* running the second.
C10_Witness ==
    /\ spc = "done"
    /\ Cardinality(DOMAIN test_suite) = 2
    /\ Len(units_run) = 1
    /\ units_run[1].name = "t1"
    /\ sresult = Err("CallGasCostMoreThanGasLimit")

(***************************************************************************)
(* C12: sender precedence.  When the template carries an explicit sender   *)
(* and a secret key, the caller of every executed transaction is the       *)
(* explicit sender and the key plays no part: an invalid key does not make *)
(* the unit fail at sender resolution.                                     *)
(***************************************************************************)
C12_SenderPrecedence ==
    IsSome(unit.transaction.sender) =>
        /\ upc \in {"loop", "done"} => env.tx.caller = unit.transaction.sender
        /\ \A i \in 1..Len(executed) :
              executed[i].env.tx.caller = unit.transaction.sender
        /\ upc = "done" => result # Err("")

\* A unit with an explicit sender and an invalid key returned Ok after a
\* transfer only the explicit sender's balance covers.
C12_Witness ==
    /\ upc = "done"
    /\ result = Ok
    /\ unit.transaction.sender = "A"
    /\ unit.transaction.secret_key = "zero"
    /\ executed # <<>>
    /\ executed[1].ok
    /\ executed[1].env.tx.caller = "A"
    /\ executed[1].env.tx.value > Balance(CacheFromPre(unit.pre), "K")

(***************************************************************************)
(* C13: blob-gas conditionality.  The block's excess blob gas and blob gas *)
(* price handed to the engine are the ones computed from the two parent    *)
(* values when both are present; when one or both are absent they are the  *)
(* defaults of the environment, whatever the value that is present.        *)
(***************************************************************************)
C13_BlobGasConditional ==
    LET used == unit.env.parent_blob_gas_used
        excess == unit.env.parent_excess_blob_gas
        sum == used.val + excess.val
        expected ==
            IF used.some /\ excess.some
            THEN [some |-> TRUE,
                  excess_blob_gas |-> IF sum > 393216 THEN sum - 393216 ELSE 0,
                  blob_gasprice |->
                      <<"calc_blob_gasprice", IF sum > 393216 THEN sum - 393216 ELSE 0>>]
            ELSE DefaultEnv.block.blob_excess_gas_and_price
    IN  /\ upc = "loop" => env.block.blob_excess_gas_and_price = expected
        /\ \A i \in 1..Len(executed) :
              executed[i].env.block.blob_excess_gas_and_price = expected

\* A transaction ran with the default blob fields although the parent
\* excess was present and on its own exceeds the target.
C13_Witness ==
    /\ executed # <<>>
    /\ executed[1].ok
    /\ unit.env.parent_blob_gas_used = NoneU256
    /\ unit.env.parent_excess_blob_gas = SomeU256(524288)
    /\ executed[1].env.block.blob_excess_gas_and_price = DefaultBlobGas

(***************************************************************************)
(* C14: a classification failure is never retried.  Once the validation of *)
(* a block has failed the process is over: that block's validation is the  *)
(* last one, its acquisition is the last one, and it is never proved.  A   *)
(* block number is acquired again only after an acquisition of it that     *)
(* failed; after an acquisition that succeeded the next one asks for the   *)
(* next number.  No block is validated twice.                              *)
(***************************************************************************)
C14_FailedValidationIsFinal ==
    /\ \A j \in DOMAIN validated :
          validated[j].result # Ok =>
              /\ j = Len(validated)
              /\ ppc = "panicked"
              /\ block_no = validated[j].block_no
              /\ Last(acquisitions) = [block_no |-> validated[j].block_no, ok |-> TRUE]
              /\ \A i \in DOMAIN proved : proved[i].block_no # validated[j].block_no
    /\ \A i, j \in DOMAIN validated :
          i < j => validated[i].block_no < validated[j].block_no
    /\ \A k \in 2..Len(acquisitions) :
          IF acquisitions[k - 1].ok
          THEN acquisitions[k].block_no = acquisitions[k - 1].block_no + 1
          ELSE acquisitions[k].block_no = acquisitions[k - 1].block_no

\* The first block was acquired at the second attempt, its validation
\* failed, and the process ended there although it runs under PROVE_LOOP.
C14_Witness ==
    /\ ppc = "panicked"
    /\ prove_loop
    /\ acquisitions = <<[block_no |-> 1, ok |-> FALSE], [block_no |-> 1, ok |-> TRUE]>>
    /\ Len(validated) = 1
    /\ validated[1].result.tag = "Err"

\* The data starts with the serialization of a suite (bytes after it are
\* allowed): a length prefix, then that many entries, each a test name with
\* one of the units, the names in strictly growing order.
IsEnvelopeOfSuite(data) ==
    /\ data # <<>>
    /\ data[1].kind = "len"
    /\ data[1] = LenToken(data[1].n)
    /\ Len(data) >= 1 + data[1].n
    /\ \A i \in 2..(1 + data[1].n) :
          /\ data[i].kind = "entry"
          /\ data[i].name \in {TestNames[k] : k \in DOMAIN TestNames}
          /\ data[i].unit \in BlockUnits
          /\ data[i] = EntryToken(data[i].name, data[i].unit)
    /\ \A i, j \in 2..(1 + data[1].n) :
          i < j => NameRank(data[i].name) < NameRank(data[j].name)

(***************************************************************************)
(* C15: decode errors are hard failures.  When the envelope is not the     *)
(* serialization of a suite, execute_test_suite returns an Err carrying    *)
(* the decoder's message straight from the decoding step: no unit is       *)
(* entered, no transaction is executed, and the caller that was handed    *)
(* the error ends without calling again.                                   *)
(***************************************************************************)
C15_DecodeErrorIsHard ==
    /\ (spc # "idle" /\ ~IsEnvelopeOfSuite(test_data)) =>
          /\ spc \in {"decode", "done"}
          /\ units_run = <<>>
          /\ upc = "idle"
          /\ executed = <<>>
          /\ snapshots = 0
          /\ spc = "done" => sresult.tag = "Err" /\ sresult.msg # ""
    /\ (spc = "idle" /\ sresult # NoResult /\ ~IsEnvelopeOfSuite(test_data)) =>
          /\ ppc = "panicked"
          /\ sresult.tag = "Err"
          /\ units_run = <<>>
          /\ executed = <<>>

\* The envelope of a suite of two units, cut short by its last entry, was
\* rejected and neither unit ran.
C15_Witness ==
    /\ spc = "done"
    /\ Len(test_data) = 2
    /\ test_data[1] = LenToken(2)
    /\ test_data[2].kind = "entry"
    /\ sresult = Err("io error: unexpected end of file")
    /\ units_run = <<>>

(***************************************************************************)
(* C16: the classification depends on the presence of the exception        *)
(* marker, not on its content.  An expectation that carries a marker       *)
(* passes exactly when the engine failed, whatever the marker names and    *)
(* whatever the engine's error is, and it is classified as the same        *)
(* expectation is under any other marker.                                  *)
(***************************************************************************)
C16_MarkerContentIrrelevant ==
    \A i \in 1..Len(executed) :
        executed[i].expect_exception # None =>
            /\ executed[i].verdict = Ok <=> ~executed[i].ok
            /\ \A m \in VariantMarkers \ {None} :
                  executed[i].verdict =
                      check(m, AloneExec(unit, <<executed[i].fork, executed[i].test>>))

\* An expectation whose marker names a lack of funds passed on an engine
\* error about the intrinsic gas, and one whose marker names the intrinsic
\* gas passed on a lack of funds.
C16_Witness ==
    /\ Len(executed) = 2
    /\ executed[1].expect_exception = "TR_NoFunds"
    /\ executed[1].err = "CallGasCostMoreThanGasLimit"
    /\ executed[1].verdict = Ok
    /\ executed[2].expect_exception = "TR_IntrinsicGas"
    /\ executed[2].err = "LackOfFundForMaxFee"
    /\ executed[2].verdict = Ok

(***************************************************************************)
(* C17: the environment handed to the engine for an expectation is the     *)
(* unit's base environment with that expectation's own gas limit, data,    *)
(* value, access list and destination: nothing selected for an earlier     *)
(* expectation is left in it, and the configuration, the block fields, the *)
(* caller, the gas price, the priority fee and the blob fields are the     *)
(* base environment's for every expectation.                               *)
(***************************************************************************)
C17_EnvIsBasePlusOwnSelection ==
    \A i \in 1..Len(executed) :
        LET e == executed[i].env
            t == unit.post[executed[i].fork][executed[i].test]
            tx == unit.transaction
            base == BaseEnv(unit, CallerOf(unit))
            candidate == tx.gas_limit[t.indexes.gas + 1]
            own_list ==
                IF t.indexes.data + 1 \in DOMAIN tx.access_lists
                THEN IF tx.access_lists[t.indexes.data + 1].some
                     THEN tx.access_lists[t.indexes.data + 1].list
                     ELSE <<>>
                ELSE <<>>
        IN  /\ e.cfg = base.cfg
            /\ e.block = base.block
            /\ e.tx.caller = base.tx.caller
            /\ e.tx.gas_price = base.tx.gas_price
            /\ e.tx.gas_priority_fee = base.tx.gas_priority_fee
            /\ e.tx.blob_hashes = base.tx.blob_hashes
            /\ e.tx.max_fee_per_blob_gas = base.tx.max_fee_per_blob_gas
            /\ e.tx.gas_limit = IF candidate > U64_MAX THEN U64_MAX ELSE candidate
            /\ e.tx.data = tx.data[t.indexes.data + 1]
            /\ e.tx.value = tx.value[t.indexes.value + 1]
            /\ e.tx.access_list = own_list
            /\ e.tx.transact_to = tx.to

\* After an expectation that selected the data candidate with an access
\* list, one that selected the candidate without access list ran with an
\* empty list, under block blob fields that are not the defaults.
C17_Witness ==
    /\ Len(executed) = 2
    /\ executed[1].env.tx.access_list # <<>>
    /\ executed[2].env.tx.access_list = <<>>
    /\ executed[2].env.tx.data = "d1"
    /\ executed[2].env.block.blob_excess_gas_and_price # DefaultBlobGas
    /\ executed[2].env.block = executed[1].env.block

\* The modelled rulesets that precede Spurious Dragon (EIP-161).
BeforeSpuriousDragon == {"Frontier"}

(***************************************************************************)
(* C18: every executed pair runs on a snapshot whose state-clearing flag   *)
(* is true exactly when the fork's ruleset is at or after Spurious Dragon. *)
(* The flag is set on the snapshot only: the cache the snapshots are taken *)
(* from keeps it false, so a fork's flag does not reach another fork's     *)
(* snapshot.                                                               *)
(***************************************************************************)
C18_StateClearFlagPerFork ==
    /\ cache_state.state_clear = FALSE
    /\ \A i \in 1..Len(executed) :
          executed[i].state_clear <=> executed[i].fork \notin BeforeSpuriousDragon

\* One unit ran a Frontier expectation without state clearing and then a
\* Merge expectation with it.
C18_Witness ==
    /\ Len(executed) = 2
    /\ executed[1].fork = "Frontier" /\ ~executed[1].state_clear
    /\ executed[2].fork = "Merge" /\ executed[2].state_clear
    /\ upc = "done"
    /\ result = Ok

(***************************************************************************)
(* C19: the gas price of every executed transaction is the template's gas  *)
(* price when it is set (also when it is set to zero, and also when the    *)
(* max fee per gas is set too), else the max fee per gas when that is set, *)
(* else zero.                                                              *)
(***************************************************************************)
C19_GasPricePrecedence ==
    LET gas_price == unit.transaction.gas_price
        max_fee == unit.transaction.max_fee_per_gas
        expected ==
            CASE gas_price.some -> gas_price.val
              [] ~gas_price.some /\ max_fee.some -> max_fee.val
              [] OTHER -> 0
    IN  /\ upc = "loop" => env.tx.gas_price = expected
        /\ \A i \in 1..Len(executed) : executed[i].env.tx.gas_price = expected

\* With a gas price of zero and a max fee per gas of two, a transfer of
\* the sender's whole balance ran at price zero and succeeded.
C19_Witness ==
    /\ executed # <<>>
    /\ unit.transaction.gas_price = SomeU256(0)
    /\ unit.transaction.max_fee_per_gas = SomeU256(2)
    /\ executed[1].env.tx.gas_price = 0
    /\ executed[1].env.tx.value = Balance(CacheFromPre(unit.pre), executed[1].env.tx.caller)
    /\ executed[1].ok

(***************************************************************************)
(* C20: the gas limit of an executed transaction is the selected candidate *)
(* saturated to the engine's width: a candidate above the largest value of *)
(* that width yields that largest value, not the candidate modulo two to   *)
(* the width, and a candidate within the width is passed on unchanged.     *)
(* (The width is GasBits in the model, 64 in the code.)                    *)
(***************************************************************************)
C20_GasLimitSaturates ==
    \A i \in 1..Len(executed) :
        LET t == unit.post[executed[i].fork][executed[i].test]
            candidate == unit.transaction.gas_limit[t.indexes.gas + 1]
            gas_limit == executed[i].env.tx.gas_limit
        IN  /\ gas_limit <= 2 ^ GasBits - 1
            /\ candidate <= 2 ^ GasBits - 1 => gas_limit = candidate
            /\ candidate > 2 ^ GasBits - 1 =>
                  /\ gas_limit = 2 ^ GasBits - 1
                  /\ gas_limit # candidate % (2 ^ GasBits)

\* A candidate beyond the width that is 21000 modulo two to the width ran
\* with the largest gas limit, and a candidate within the width ran as is.
C20_Witness ==
    /\ Len(executed) = 2
    /\ unit.post[executed[1].fork][executed[1].test].indexes.gas = 2
    /\ executed[1].env.tx.gas_limit = U64_MAX
    /\ unit.transaction.gas_limit[3] % (2 ^ GasBits) = 21000
    /\ executed[2].env.tx.gas_limit = 100

\* The number of successful acquisitions so far.
Acquired == Cardinality({k \in DOMAIN acquisitions : acquisitions[k].ok})

(***************************************************************************)
(* C21: when executor::process returns a suite without units, the block    *)
(* is neither validated nor proved: prove_tx is not entered, so no         *)
(* envelope is written for it and execute_test_suite is not called; and    *)
(* block_no is one more than the number of that block.                     *)
(***************************************************************************)
C21_EmptySuiteIsSkipped ==
    (/\ acquisitions # <<>>
     /\ Last(acquisitions).ok
     /\ DOMAIN items = {})
    => LET b == Last(acquisitions).block_no
       IN  /\ ppc \in {"loop_end", "acquire", "exit_ok"}
           /\ block_no = b + 1
           /\ spc = "idle"
           /\ b \notin DOMAIN fs
           /\ \A j \in DOMAIN validated : validated[j].block_no # b
           /\ \A i \in DOMAIN proved : proved[i].block_no # b

\* After a block that was validated and proved, the second block came
\* with an empty suite and main moved on to the third.
C21_Witness ==
    /\ ppc = "acquire"
    /\ DOMAIN items = {}
    /\ acquisitions # <<>>
    /\ Last(acquisitions) = [block_no |-> 2, ok |-> TRUE]
    /\ block_no = 3
    /\ Len(validated) = 1
    /\ Len(proved) = 1

(***************************************************************************)
(* C22: block_no goes up by exactly one with each successful acquisition   *)
(* and stays as it is on a failed one.  The successful acquisitions are of *)
(* the numbers 1, 2, 3, ... in this order, none left out and none twice;   *)
(* whenever main asks for a block, block_no is one more than the number of *)
(* successful acquisitions; and prove_tx is entered for a block at most    *)
(* once, with numbers that only grow.                                      *)
(***************************************************************************)
C22_BlockNumbersAdvanceByOne ==
    /\ \A k \in DOMAIN acquisitions :
          acquisitions[k].ok =>
              acquisitions[k].block_no =
                  Cardinality({j \in 1..k : acquisitions[j].ok})
    /\ \A k \in DOMAIN acquisitions :
          ~acquisitions[k].ok =>
              acquisitions[k].block_no =
                  Cardinality({j \in 1..k : acquisitions[j].ok}) + 1
    /\ ppc \in {"acquire", "loop_end", "exit_ok"} => block_no = Acquired + 1
    /\ ppc \in {"prove_tx", "validate_wait", "prove"} =>
          /\ block_no = Acquired
          /\ Last(acquisitions) = [block_no |-> block_no, ok |-> TRUE]
          /\ \A i \in DOMAIN proved : proved[i].block_no < block_no
    /\ ppc \in {"prove_tx", "validate_wait"} =>
          \A j \in DOMAIN validated : validated[j].block_no < block_no
    /\ ppc = "prove_tx" => block_no \notin DOMAIN fs
    /\ \A i, j \in DOMAIN validated :
          i < j => validated[i].block_no < validated[j].block_no

\* The second block was handed to prove_tx after the first block had been
\* validated and after one failed attempt at each of the two.
C22_Witness ==
    /\ ppc = "prove_tx"
    /\ block_no = 2
    /\ acquisitions = <<[block_no |-> 1, ok |-> FALSE], [block_no |-> 1, ok |-> TRUE],
                        [block_no |-> 2, ok |-> FALSE], [block_no |-> 2, ok |-> TRUE]>>
    /\ Len(validated) = 1
    /\ validated[1].block_no = 1

(***************************************************************************)
(* Vocabulary of the claim about the relay: what the chain and the filter  *)
(* say has to be sent, in order.                                           *)
(***************************************************************************)
\* The filter-matching transactions of the block at height h, in block
\* order.
Matching(h) ==
    SelectSeq([i \in 1..Len(chain[h]) |-> [height |-> h, index |-> i, to |-> chain[h][i]]],
              LAMBDA t : target_address = None \/ t.to = target_address)

RECURSIVE MatchingBetween(_, _)
\* The filter-matching transactions of the heights from..(to - 1).
MatchingBetween(from, to) ==
    IF from >= to THEN <<>> ELSE Matching(from) \o MatchingBetween(from + 1, to)

IsPrefix(s, t) == Len(s) <= Len(t) /\ SubSeq(t, 1, Len(s)) = s

\* (block height, in-block index) order.
TxBefore(a, b) == a.height < b.height \/ (a.height = b.height /\ a.index < b.index)

=============================================================================
